---- MODULE Spec2Model ----
(***************************************************************************)
(* Model of the property model of the application (src/models.py):         *)
(* Property.get_rent_status and Property.get_activity, over a record store *)
(* of leases, management contracts, maintenance requests, messages and     *)
(* invoices that the persistence layer creates and updates; and of the     *)
(* message views (src/views.py), which ingest tweets and Gmail messages    *)
(* into the Message table and keep the TwitterAuth rows.                   *)
(*                                                                         *)
(* A date is a triple <<year, month, day>>; a datetime is a quadruple      *)
(* <<year, month, day, hour>>.  None is the null of a nullable column; a   *)
(* nullable value is tested with `value = None`, the value on the left.    *)
(***************************************************************************)
EXTENDS Integers, Sequences, FiniteSets, TLC

VARIABLES
    clock,          \* date.today(): the wall-clock date
    invoiceTypes,   \* names of the InvoiceType rows
    leases,         \* LeaseContract rows, row id = position
    invoices,       \* Invoice rows, row id = position
    owners,         \* Property.owners of the property: user profiles
    contracts,      \* ManagementContract rows, row id = position
    requests,       \* MaintenanceRequest rows, row id = position
    messages,       \* Message rows, row id = position
    eventRows,      \* Event rows, row id = position
    twitterAuth,    \* TwitterAuth rows, row id = position
    rent,           \* the call of get_rent_status the last step made, if any
    feed,           \* the call of get_activity the last step made, if any
    due,            \* the due dates computed for one (today, rent_due_day)
    view            \* the view the last step ran, if any, and whether it
                    \* skipped an item already stored

vars == <<clock, invoiceTypes, leases, invoices, owners, contracts, requests,
          messages, eventRows, twitterAuth, rent, feed, due, view>>

store == <<invoiceTypes, leases, invoices, owners, contracts, requests, messages,
           eventRows, twitterAuth>>

\* what the calls and the due-date steps leave alone
calls == <<rent, feed>>

(***************************************************************************)
(* Bounds of the model.                                                    *)
(***************************************************************************)
\* rows the store holds at most, over all tables
MaxRecords == 4
\* the calendar years the due-date arithmetic is checked over
FirstYear == 2023
LastYear == 2024

None == "None"

Min(a, b) == IF a <= b THEN a ELSE b

(***************************************************************************)
(* datetime.date and calendar                                              *)
(***************************************************************************)
\* calendar.isleap
isleap(y) == (y % 4 = 0 /\ y % 100 # 0) \/ y % 400 = 0

\* calendar.monthrange(year, month)[1]: the number of days of the month
monthrange(y, m) ==
    IF m = 2 THEN (IF isleap(y) THEN 29 ELSE 28)
    ELSE IF m \in {4, 6, 9, 11} THEN 30 ELSE 31

\* date(year, month, day) raises ValueError unless the day is in the month
ValidDay(y, m, d) == d >= 1 /\ d <= monthrange(y, m)

\* a < b on dates
DateLT(a, b) ==
    \/ a[1] < b[1]
    \/ a[1] = b[1] /\ a[2] < b[2]
    \/ a[1] = b[1] /\ a[2] = b[2] /\ a[3] < b[3]

DateLE(a, b) == a = b \/ DateLT(a, b)

NextDay(d) ==
    IF d[3] < monthrange(d[1], d[2]) THEN <<d[1], d[2], d[3] + 1>>
    ELSE IF d[2] < 12 THEN <<d[1], d[2] + 1, 1>>
    ELSE <<d[1] + 1, 1, 1>>

\* date + timedelta(days=n)
RECURSIVE AddDays(_, _)
AddDays(d, n) == IF n = 0 THEN d ELSE AddDays(NextDay(d), n - 1)

\* dt - relativedelta(months=1): the previous month, the day clamped to it
MinusOneMonth(d) ==
    LET y == IF d[2] = 1 THEN d[1] - 1 ELSE d[1]
        m == IF d[2] = 1 THEN 12 ELSE d[2] - 1
    IN  <<y, m, Min(monthrange(y, m), d[3])>>

\* dt + relativedelta(day=n): the day replaced, clamped to the month
WithDay(d, n) == <<d[1], d[2], Min(monthrange(d[1], d[2]), n)>>

(***************************************************************************)
(* Property.get_rent_status: the due dates                                 *)
(***************************************************************************)
ThisMonthDueDateFirstDay(today, rent_due_day) ==
    IF ValidDay(today[1], today[2], rent_due_day)
    THEN <<today[1], today[2], rent_due_day>>
    ELSE <<today[1], today[2], 1>>

\* lines 114-121: date(today.year, today.month, rent_due_day), and on
\* ValueError the last day of the month
ThisMonthDueDate(today, rent_due_day) ==
    IF ValidDay(today[1], today[2], rent_due_day)
    THEN <<today[1], today[2], rent_due_day>>
    ELSE <<today[1], today[2], monthrange(today[1], today[2])>>

\* the previous month's date without the day set back to rent_due_day
LastDueNotReanchored(today, rent_due_day) ==
    LET this_month_due_date == ThisMonthDueDate(today, rent_due_day)
    IN  IF DateLT(today, this_month_due_date)
        THEN MinusOneMonth(this_month_due_date)
        ELSE this_month_due_date

\* lines 126-131
LastDue(today, rent_due_day) ==
    LET this_month_due_date == ThisMonthDueDate(today, rent_due_day)
    IN  IF DateLT(today, this_month_due_date)
        THEN LET last_due == MinusOneMonth(this_month_due_date)
             IN  IF last_due[3] # rent_due_day
                 THEN WithDay(last_due, rent_due_day)
                 ELSE last_due
        ELSE this_month_due_date

(***************************************************************************)
(* The record store                                                        *)
(***************************************************************************)
Users == {"u1", "u2"}

\* the property get_rent_status and get_activity are called on
Self == "p1"

Mar01 == <<2024, 3, 1>>
Mar02 == <<2024, 3, 2>>
Mar03 == <<2024, 3, 3>>
Mar05 == <<2024, 3, 5>>
Mar08 == <<2024, 3, 8>>
Mar10 == <<2024, 3, 10>>
Jan01 == <<2024, 1, 1>>
Feb29 == <<2024, 2, 29>>
Dec31 == <<2024, 12, 31>>

Lease(p, t, s, e, d, g) ==
    [property |-> p, tenant |-> t, start_date |-> s, end_date |-> e,
     rent_due_day |-> d, days_grace_period |-> g]

Invoice(ty, payer, payee, p, issued, dueDate, paid, amount) ==
    [type |-> ty, payer |-> payer, payee |-> payee, property |-> p,
     issued_date |-> issued, due_date |-> dueDate, paid_date |-> paid,
     amount |-> amount]

\* the wall-clock dates, in order
ClockDates == <<Mar03, Mar10>>

\* the dates get_rent_status is called with
TodayInputs == {Mar03, Mar10}

InvoiceTypeNames == {"Rent", "Utilities"}

\* the leases the persistence layer creates
RentLeaseInputs ==
    { Lease(Self, "u1", Jan01, Dec31, 1, 5),
      Lease(Self, "u2", Jan01, Dec31, 1, 0),
      Lease(Self, "u1", Mar05, Dec31, 1, 5),
      Lease(Self, "u2", Jan01, Mar08, 31, 5),
      Lease("p2", "u2", Jan01, Dec31, 1, 5) }

\* the invoices the persistence layer creates, all unpaid
RentInvoiceInputs ==
    { Invoice(ty, payer, "u2", Self, Feb29, dueDate, None, 100) :
        ty \in InvoiceTypeNames, payer \in Users, dueDate \in {Mar01} }
    \cup { Invoice("Rent", "u2", "u1", Self, Feb29, Feb29, None, 100) }

\* no call of get_rent_status in the last step
NoCall == [today |-> None, order |-> <<>>, ret |-> None, raised |-> None]

\* no view ran in the last step
NoView == [name |-> None, skipped |-> FALSE]

\* no call of get_activity in the last step
NoFeed == [user |-> None, today |-> None, activity |-> <<>>, raised |-> None]

Contract(p, manager, owner, s, e) ==
    [property |-> p, manager |-> manager, owner |-> owner,
     start_date |-> s, end_date |-> e]

Request(p, creator, assignee, headline, created, assigned, resolved) ==
    [property |-> p, created_by |-> creator, assignee |-> assignee,
     headline |-> headline, creation_date |-> created,
     assigned_date |-> assigned, resolution_date |-> resolved]

Message(user, p, sender, recipients, headline, created, type, external) ==
    [user_profile |-> user, property |-> p, sender |-> sender,
     recipients |-> recipients, headline |-> headline,
     creation_date |-> created, type |-> type, external_id |-> external]

\* the rows the persistence layer creates for the activity feed
FeedLeaseInputs ==
    { Lease(Self, "u1", Jan01, Dec31, 1, 5),
      Lease(Self, "u2", Jan01, Mar08, 1, 5),
      Lease("p2", "u2", Mar05, Dec31, 1, 5) }

FeedContractInputs ==
    { Contract(Self, "u1", "u2", Jan01, Dec31),
      Contract("p2", "u1", "u2", Jan01, Mar08) }

FeedRequestInputs ==
    { Request(Self, "u1", "u2", "leak", Mar01, None, None),
      Request(Self, "u1", None, "door", Mar02, Mar03, Mar05),
      Request(Self, "u2", "u1", "heat", Mar01, Mar02, None) }

FeedMessageInputs ==
    { Message("u1", Self, "u2@mail", "u1@mail", "hello", <<2024, 3, 1, 9>>,
              "Email", None),
      Message("u1", Self, "u1-phone2", "other", "rent", <<2024, 3, 5, 17>>,
              "Tweet", None),
      Message("u2", Self, "other", "other", "spam", <<2024, 3, 2, 8>>,
              "Email", None) }

FeedInvoiceInputs ==
    { Invoice("Rent", "u1", "u2", Self, Feb29, Mar01, None, 100),
      Invoice("Rent", "u2", "u1", "p2", Feb29, Mar05, None, 100) }

Records ==
    Cardinality(invoiceTypes) + Len(leases) + Len(invoices) + Cardinality(owners)
    + Len(contracts) + Len(requests) + Len(messages) + Len(eventRows)
    + Len(twitterAuth)

CreateInvoiceType(name) ==
    /\ Records < MaxRecords
    /\ name \notin invoiceTypes
    /\ invoiceTypes' = invoiceTypes \cup {name}
    /\ rent' = NoCall
    /\ feed' = NoFeed
    /\ UNCHANGED <<clock, leases, invoices, owners, contracts, requests, messages,
                 eventRows, twitterAuth, due, view>>

CreateLease(lease) ==
    /\ Records < MaxRecords
    /\ leases' = Append(leases, lease)
    /\ rent' = NoCall
    /\ feed' = NoFeed
    /\ UNCHANGED <<clock, invoiceTypes, invoices, owners, contracts, requests, messages,
                 eventRows, twitterAuth, due, view>>

\* Invoice.type is a foreign key to an InvoiceType row
CreateInvoice(invoice) ==
    /\ Records < MaxRecords
    /\ invoice.type \in invoiceTypes
    /\ invoices' = Append(invoices, invoice)
    /\ rent' = NoCall
    /\ feed' = NoFeed
    /\ UNCHANGED <<clock, invoiceTypes, leases, owners, contracts, requests, messages,
                 eventRows, twitterAuth, due, view>>

PayInvoice(i, day) ==
    /\ invoices[i].paid_date = None
    /\ invoices' = [invoices EXCEPT ![i].paid_date = day]
    /\ rent' = NoCall
    /\ feed' = NoFeed
    /\ UNCHANGED <<clock, invoiceTypes, leases, owners, contracts, requests, messages,
                 eventRows, twitterAuth, due, view>>

AddOwner(user) ==
    /\ Records < MaxRecords
    /\ user \notin owners
    /\ owners' = owners \cup {user}
    /\ rent' = NoCall
    /\ feed' = NoFeed
    /\ UNCHANGED <<clock, invoiceTypes, leases, invoices, contracts, requests, messages,
                 eventRows, twitterAuth, due, view>>

CreateContract(contract) ==
    /\ Records < MaxRecords
    /\ contracts' = Append(contracts, contract)
    /\ rent' = NoCall
    /\ feed' = NoFeed
    /\ UNCHANGED <<clock, invoiceTypes, leases, invoices, owners, requests, messages,
                 eventRows, twitterAuth, due, view>>

CreateRequest(request) ==
    /\ Records < MaxRecords
    /\ requests' = Append(requests, request)
    /\ rent' = NoCall
    /\ feed' = NoFeed
    /\ UNCHANGED <<clock, invoiceTypes, leases, invoices, owners, contracts, messages,
                 eventRows, twitterAuth, due, view>>

CreateMessage(message) ==
    /\ Records < MaxRecords
    /\ messages' = Append(messages, message)
    /\ rent' = NoCall
    /\ feed' = NoFeed
    /\ UNCHANGED <<clock, invoiceTypes, leases, invoices, owners, contracts, requests,
                 eventRows, twitterAuth, due, view>>

AdvanceClock ==
    /\ \E k \in 1..(Len(ClockDates) - 1) :
          clock = ClockDates[k] /\ clock' = ClockDates[k + 1]
    /\ rent' = NoCall
    /\ feed' = NoFeed
    /\ UNCHANGED <<store, due, view>>

(***************************************************************************)
(* Property.get_rent_status                                                *)
(***************************************************************************)
Return(value) == [ret |-> value, raised |-> None]
Raise(exception) == [ret |-> None, raised |-> exception]

\* a query set yields its rows in the order of their ids
RECURSIVE ByRowId(_)
ByRowId(S) ==
    IF S = {} THEN <<>>
    ELSE LET first == CHOOSE i \in S : \A j \in S : i <= j
         IN  <<first>> \o ByRowId(S \ {first})

\* lines 87-89: the ids of the leases of this property in effect on today
get_active_leases(today) ==
    { i \in DOMAIN leases :
        /\ leases[i].property = Self
        /\ DateLE(leases[i].start_date, today)
        /\ DateLE(today, leases[i].end_date) }

NotStartedFlipped(today, lease) == DateLT(lease.start_date, today)

\* line 108
NotStarted(today, lease) == DateLT(today, lease.start_date)

\* lines 135-138: the rows Invoice.objects.get selects among
MatchingInvoices(lease, last_due) ==
    { i \in DOMAIN invoices :
        /\ invoices[i].type = "Rent"
        /\ invoices[i].due_date = last_due
        /\ invoices[i].payer = lease.tenant }

\* lines 125, 141-146
InvoiceStatus(invoice, today, last_due, grace_period) ==
    IF invoice.paid_date # None THEN "Paid"
    ELSE IF /\ DateLE(last_due, today)
            /\ DateLE(today, AddDays(last_due, grace_period))
         THEN "Due"
         ELSE "Late"

\* the loop going on to the next lease after one that is not yet started
RECURSIVE RentLoopLastWins(_, _, _, _)
RentLoopLastWins(order, i, today, ret) ==
    IF i > Len(order) THEN Return(ret)
    ELSE LET lease == leases[order[i]]
             last_due == LastDue(today, lease.rent_due_day)
             found == MatchingInvoices(lease, last_due)
         IN  IF NotStarted(today, lease)
             THEN RentLoopLastWins(order, i + 1, today, "NA")
             ELSE IF "Rent" \notin invoiceTypes
                  THEN Raise("InvoiceType.DoesNotExist")
             ELSE IF found = {} THEN Raise("Invoice.DoesNotExist")
             ELSE IF Cardinality(found) > 1
                  THEN Raise("Invoice.MultipleObjectsReturned")
             ELSE RentLoopLastWins(order, i + 1, today,
                                   InvoiceStatus(invoices[CHOOSE k \in found : TRUE],
                                                 today, last_due,
                                                 lease.days_grace_period))

\* lines 107-148: the loop over the leases, from the i-th of order on
RECURSIVE RentLoop(_, _, _, _)
RentLoop(order, i, today, ret) ==
    IF i > Len(order) THEN Return(ret)
    ELSE LET lease == leases[order[i]]
             last_due == LastDue(today, lease.rent_due_day)
             found == MatchingInvoices(lease, last_due)
         IN  IF NotStarted(today, lease) THEN Return("NA")
             ELSE IF "Rent" \notin invoiceTypes
                  THEN Raise("InvoiceType.DoesNotExist")
             ELSE IF found = {} THEN Raise("Invoice.DoesNotExist")
             ELSE IF Cardinality(found) > 1
                  THEN Raise("Invoice.MultipleObjectsReturned")
             ELSE RentLoop(order, i + 1, today,
                           InvoiceStatus(invoices[CHOOSE k \in found : TRUE],
                                         today, last_due,
                                         lease.days_grace_period))

\* lines 104-156, the leases iterated in the given order
get_rent_status(today, order) ==
    LET out == RentLoop(order, 1, today, "!!")
    IN  IF out.raised = "Invoice.DoesNotExist" THEN Return("!!")
        ELSE IF out.raised = "LeaseContract.DoesNotExist" THEN Return("NA")
        ELSE out

\* line 106: the leases are those in effect on date.today()
GetRentStatus(today) ==
    /\ LET order == ByRowId(get_active_leases(clock))
           out == get_rent_status(today, order)
       IN  rent' = [today |-> today, order |-> order,
                    ret |-> out.ret, raised |-> out.raised]
    /\ feed' = NoFeed
    /\ UNCHANGED <<clock, store, due, view>>

(***************************************************************************)
(* Property.build_event and the post-processing of get_activity            *)
(***************************************************************************)
\* angular_sref(name, args=(id,)): the reference of a record's page
angular_sref(name, id) == <<name, id>>

\* lines 179-181: the items of the dict of the six fields, as a tuple, in
\* the dict's iteration order
build_event(headline, date, person, actionText, action, type) ==
    << <<"person", person>>, <<"type", type>>, <<"headline", headline>>,
       <<"actionText", actionText>>, <<"action", action>>, <<"date", date>> >>

\* line 391, dict(x): the dict of a tuple of items
dict(x) ==
    [ key \in { x[i][1] : i \in DOMAIN x } |->
        x[CHOOSE i \in DOMAIN x : x[i][1] = key][2] ]

\* the order a set is iterated in: fixed for a given set, otherwise arbitrary
RECURSIVE IterationOrder(_)
IterationOrder(S) ==
    IF S = {} THEN <<>>
    ELSE LET x == CHOOSE y \in S : TRUE
         IN  <<x>> \o IterationOrder(S \ {x})

NotDeduplicated(activity) == activity

\* line 391, set(activity): the distinct tuples, in the set's iteration order
Deduplicated(activity) ==
    IterationOrder({ activity[i] : i \in DOMAIN activity })

\* line 392, the sort key: a datetime is truncated to its date
SortKey(event) ==
    IF Len(event.date) = 4 THEN SubSeq(event.date, 1, 3) ELSE event.date

\* where a stable descending sort puts e among the sorted events before it
RECURSIVE InsertSorted(_, _)
InsertSorted(e, sorted) ==
    IF sorted = <<>> THEN <<e>>
    ELSE IF DateLT(SortKey(Head(sorted)), SortKey(e)) THEN <<e>> \o sorted
    ELSE <<Head(sorted)>> \o InsertSorted(e, Tail(sorted))

Unsorted(events) == events

\* line 392, activity.sort(key=..., reverse=True): stable, newest first
RECURSIVE SortNewestFirst(_)
SortNewestFirst(events) ==
    IF events = <<>> THEN <<>>
    ELSE InsertSorted(events[Len(events)],
                      SortNewestFirst(SubSeq(events, 1, Len(events) - 1)))

\* lines 391-392
PostProcess(activity) ==
    LET tuples == Deduplicated(activity)
    IN  SortNewestFirst([ i \in DOMAIN tuples |-> dict(tuples[i]) ])

\* a loop over rows that appends the events of each row: events[row] are
\* the events of one iteration
RECURSIVE Appended(_, _)
Appended(events, rows) ==
    IF rows = <<>> THEN <<>>
    ELSE events[Head(rows)] \o Appended(events, Tail(rows))

(***************************************************************************)
(* Property.get_activity: the five sources                                 *)
(***************************************************************************)
\* lines 216-226 (and 231-241, 245-255): the events of one lease
LeaseEvents(i, today) ==
    LET lease == leases[i]
    IN  <<build_event("Lease Started", lease.start_date, lease.tenant,
                      "View Lease", angular_sref("lease-detail", i), "lease")>>
        \o IF DateLE(lease.end_date, today)
           THEN <<build_event("Lease Ended", lease.end_date, lease.tenant,
                              "View Lease", angular_sref("lease-detail", i),
                              "lease")>>
           ELSE <<>>

\* line 214
TenantLeases(user) ==
    ByRowId({ i \in DOMAIN leases :
                leases[i].tenant = user /\ leases[i].property = Self })

\* lines 228-229
OwnerLeases(user) ==
    IF user \in owners
    THEN ByRowId({ i \in DOMAIN leases : leases[i].property = Self })
    ELSE <<>>

\* line 243, filter(property__manager=user): one row per lease and per
\* management contract of the lease's property whose manager is the user
ManagedLeases(user) ==
    LET Rows(i) ==
            Appended([ c \in DOMAIN contracts |->
                         IF /\ contracts[c].property = leases[i].property
                            /\ contracts[c].manager = user
                         THEN <<i>> ELSE <<>> ],
                     ByRowId(DOMAIN contracts))
    IN  Appended([ i \in DOMAIN leases |-> Rows(i) ], ByRowId(DOMAIN leases))

\* lines 258-259
MgmtContracts(user) ==
    ByRowId({ c \in DOMAIN contracts :
                contracts[c].manager = user /\ contracts[c].property = Self })

\* lines 261-273: the events of one management contract
ContractEvents(c, today) ==
    LET contract == contracts[c]
    IN  <<build_event("Management Started", contract.start_date, contract.owner,
                      "View Contract", angular_sref("mgmt-contract-detail", c),
                      "management")>>
        \o IF DateLE(contract.end_date, today)
           THEN <<build_event("Management Ended", contract.end_date,
                              contract.owner, "View Contract",
                              angular_sref("mgmt-contract-detail", c),
                              "management")>>
           ELSE <<>>

\* the loop variable `contract` of lines 260-273 when the loop ran no iteration
Unbound == 0

\* the row the name `contract` is bound to after the loop of lines 260-273
ContractAfterLoop(user) ==
    LET rows == MgmtContracts(user)
    IN  IF rows = <<>> THEN Unbound ELSE rows[Len(rows)]

\* the attributes of a ManagementContract
ManagementContractFields ==
    {"id", "manager", "owner", "property", "start_date", "end_date"}

\* what reading contract.<attr> raises, if anything, after the loop
ContractAttrFault(contract, attr) ==
    IF contract = Unbound THEN "UnboundLocalError"
    ELSE IF attr \notin ManagementContractFields THEN "AttributeError"
    ELSE None

ContractAttr(contract, attr) ==
    IF attr = "id" THEN contract ELSE contracts[contract][attr]

Events(events) == [events |-> events, raised |-> None]
Fault(exception) == [events |-> <<>>, raised |-> exception]

\* a date column is set and not after today
SetAndBy(day, today) == day # None /\ DateLE(day, today)

\* lines 279-305: one iteration of the loop over the requests assigned to
\* the user; it reads created_by, id and assignee of `contract`
AssignedRequestStep(r, contract, today) ==
    LET request == requests[r]
        action == angular_sref("mgmt-contract-detail", ContractAttr(contract, "id"))
        new == build_event("New Request: " \o request.headline,
                           request.creation_date,
                           ContractAttr(contract, "created_by"),
                           "View Request", action, "maintenance")
        closed == build_event("Closed Request: " \o request.headline,
                              request.creation_date,
                              ContractAttr(contract, "assignee"),
                              "View Request", action, "maintenance")
        assigned == build_event("Assigned Request: " \o request.headline,
                                request.assigned_date,
                                ContractAttr(contract, "assignee"),
                                "View Request", action, "maintenance")
    IN  IF ContractAttrFault(contract, "created_by") # None
        THEN Fault(ContractAttrFault(contract, "created_by"))
        ELSE IF ContractAttrFault(contract, "id") # None
        THEN Fault(ContractAttrFault(contract, "id"))
        ELSE IF /\ ( SetAndBy(request.resolution_date, today)
                     \/ SetAndBy(request.assigned_date, today) )
                /\ ContractAttrFault(contract, "assignee") # None
        THEN Fault(ContractAttrFault(contract, "assignee"))
        ELSE Events(<<new>>
                    \o (IF SetAndBy(request.resolution_date, today)
                        THEN <<closed>> ELSE <<>>)
                    \o (IF SetAndBy(request.assigned_date, today)
                        THEN <<assigned>> ELSE <<>>))

\* lines 310-336: one iteration of the loop over the requests the user
\* created; it reads assignee of `contract` for a closed or assigned request
CreatedRequestStep(r, contract, today) ==
    LET request == requests[r]
        action == angular_sref("maintenance-detail", r)
        new == build_event("New Request: " \o request.headline,
                           request.creation_date, request.created_by,
                           "View Request", action, "maintenance")
        closed == build_event("Closed Request: " \o request.headline,
                              request.creation_date,
                              ContractAttr(contract, "assignee"),
                              "View Request", action, "maintenance")
        assigned == build_event("Assigned Request: " \o request.headline,
                                request.assigned_date,
                                ContractAttr(contract, "assignee"),
                                "View Request", action, "maintenance")
    IN  IF /\ ( SetAndBy(request.resolution_date, today)
                \/ SetAndBy(request.assigned_date, today) )
           /\ ContractAttrFault(contract, "assignee") # None
        THEN Fault(ContractAttrFault(contract, "assignee"))
        ELSE Events(<<new>>
                    \o (IF SetAndBy(request.resolution_date, today)
                        THEN <<closed>> ELSE <<>>)
                    \o (IF SetAndBy(request.assigned_date, today)
                        THEN <<assigned>> ELSE <<>>))

\* a loop over rows that stops at the first iteration that raises:
\* step[row] is the outcome of one iteration
RECURSIVE Loop(_, _)
Loop(step, rows) ==
    IF rows = <<>> THEN Events(<<>>)
    ELSE LET first == step[Head(rows)]
             rest == Loop(step, Tail(rows))
         IN  IF first.raised # None THEN first
             ELSE IF rest.raised # None THEN rest
             ELSE Events(first.events \o rest.events)

\* lines 276-277
AssignedRequests(user) ==
    ByRowId({ r \in DOMAIN requests :
                requests[r].assignee = user /\ requests[r].property = Self })

\* lines 307-308
CreatedRequests(user) ==
    ByRowId({ r \in DOMAIN requests :
                requests[r].created_by = user /\ requests[r].property = Self })

\* the contact values of a user profile: user.email, phone1, phone2
Email(user) == user \o "@mail"
Phone1(user) == user \o "-phone1"
Phone2(user) == IF user = "u1" THEN user \o "-phone2" ELSE None

\* lines 44-45, get_tenants(today): the tenants of the leases in effect
get_tenants(today) ==
    Appended([ i \in DOMAIN leases |->
                 IF /\ leases[i].property = Self
                    /\ DateLE(leases[i].start_date, today)
                    /\ DateLE(today, leases[i].end_date)
                 THEN <<leases[i].tenant>> ELSE <<>> ],
             ByRowId(DOMAIN leases))

\* lines 340-357: the message events; the tenants are those of date.today()
MessageEvents(user) ==
    LET tenants == { get_tenants(clock)[k] : k \in DOMAIN get_tenants(clock) }
        values == {Email(user), Phone1(user), Phone2(user)}
                  \cup { Email(t) : t \in tenants }
                  \cup { Phone1(t) : t \in tenants }
                  \cup { Phone2(t) : t \in { u \in tenants : Phone2(u) # None } }
        Event(m) ==
            IF /\ messages[m].sender \in values \/ messages[m].recipients \in values
               /\ messages[m].property = Self
               /\ messages[m].user_profile = user
            THEN <<build_event(messages[m].type \o ": " \o messages[m].headline,
                               messages[m].creation_date, user, "View",
                               angular_sref("message-detail", m),
                               messages[m].type)>>
            ELSE <<>>
    IN  IF tenants # {}
        THEN Appended([ m \in DOMAIN messages |-> Event(m) ],
                      ByRowId(DOMAIN messages))
        ELSE <<>>

\* lines 365-390: the events of one invoice
InvoiceEvents(i, user, today) ==
    LET invoice == invoices[i]
        person == IF invoice.payer # user THEN invoice.payer ELSE invoice.payee
        Event(what, date) ==
            build_event(invoice.type \o what \o ToString(invoice.amount), date,
                        person, "View Invoice",
                        angular_sref("invoice-detail", i), "invoice")
    IN  <<Event(" Created: ", invoice.issued_date)>>
        \o (IF SetAndBy(invoice.due_date, today)
            THEN <<Event(" Due: ", invoice.due_date)>> ELSE <<>>)
        \o (IF SetAndBy(invoice.paid_date, today)
            THEN <<Event(" Paid: ", invoice.paid_date)>> ELSE <<>>)

\* lines 362-363
UserInvoices(user) ==
    ByRowId({ i \in DOMAIN invoices :
                /\ invoices[i].payer = user \/ invoices[i].payee = user
                /\ invoices[i].property = Self })

\* lines 211-393
get_activity(user, today) ==
    LET OfLease == [ i \in DOMAIN leases |-> LeaseEvents(i, today) ]
        OfContract == [ c \in DOMAIN contracts |-> ContractEvents(c, today) ]
        OfInvoice == [ i \in DOMAIN invoices |-> InvoiceEvents(i, user, today) ]
        contract == ContractAfterLoop(user)
        assigned ==
            Loop([ r \in DOMAIN requests |->
                     AssignedRequestStep(r, contract, today) ],
                 AssignedRequests(user))
        created ==
            Loop([ r \in DOMAIN requests |->
                     CreatedRequestStep(r, contract, today) ],
                 CreatedRequests(user))
    IN  IF assigned.raised # None THEN [activity |-> <<>>, raised |-> assigned.raised]
        ELSE IF created.raised # None THEN [activity |-> <<>>, raised |-> created.raised]
        ELSE [ activity |->
                 PostProcess( Appended(OfLease, TenantLeases(user))
                              \o Appended(OfLease, OwnerLeases(user))
                              \o Appended(OfLease, ManagedLeases(user))
                              \o Appended(OfContract, MgmtContracts(user))
                              \o assigned.events
                              \o created.events
                              \o MessageEvents(user)
                              \o Appended(OfInvoice, UserInvoices(user)) ),
               raised |-> None ]

\* the call with the events it built saved as Event rows
GetActivityPersisting(user, today) ==
    /\ LET out == get_activity(user, today)
       IN  /\ feed' = [user |-> user, today |-> today,
                       activity |-> out.activity, raised |-> out.raised]
           /\ eventRows' = eventRows \o out.activity
    /\ rent' = NoCall
    /\ UNCHANGED <<clock, invoiceTypes, leases, invoices, owners, contracts,
                   requests, messages, twitterAuth, due, view>>

\* lines 183-393: the method queries the tables and saves nothing
GetActivity(user, today) ==
    /\ LET out == get_activity(user, today)
       IN  feed' = [user |-> user, today |-> today,
                    activity |-> out.activity, raised |-> out.raised]
    /\ rent' = NoCall
    /\ UNCHANGED <<clock, store, due, view>>

(***************************************************************************)
(* The views (src/views.py): Twitter authorisation                         *)
(***************************************************************************)
TwitterAuth(user, final, oauth_token, oauth_token_secret) ==
    [user |-> user, final |-> final, oauth_token |-> oauth_token,
     oauth_token_secret |-> oauth_token_secret]

\* a TwitterAuth row is created with final = False, and a user has one row
\* at most
CreateTwitterAuth(user) ==
    /\ Records < MaxRecords
    /\ \A a \in DOMAIN twitterAuth : twitterAuth[a].user # user
    /\ twitterAuth' = Append(twitterAuth,
                             TwitterAuth(user, FALSE, "request", "request-secret"))
    /\ view' = NoView
    /\ UNCHANGED <<clock, invoiceTypes, leases, invoices, owners, contracts,
                   requests, messages, eventRows, rent, feed, due>>

\* TwitterAuth.objects.filter(user=user): the ids of the rows of the user
AuthOf(rows, user) == { a \in DOMAIN rows : rows[a].user = user }

\* TwitterAuth.objects.filter(user=user, final=final)
AuthOfFinal(rows, user, final) ==
    { a \in AuthOf(rows, user) : rows[a].final = final }

\* objects.get over the selected rows: the row id, or the exception
Get(selected) ==
    IF selected = {} THEN Raise("TwitterAuth.DoesNotExist")
    ELSE IF Cardinality(selected) > 1
         THEN Raise("TwitterAuth.MultipleObjectsReturned")
    ELSE Return(CHOOSE a \in selected : TRUE)

\* auth.delete(): the table without the row
Deleted(rows, a) ==
    SubSeq(rows, 1, a - 1) \o SubSeq(rows, a + 1, Len(rows))

\* the outcome of a view on the TwitterAuth table
Auth(rows, raised) == [rows |-> rows, raised |-> raised]

\* lines 3 and 206: the name datetime is the module (import datetime), which
\* has no attribute now, so datetime.now() raises AttributeError
DatetimeNowRaises == TRUE

\* lines 205-231, MessageSocialView.get_context_data; tokens is the outcome
\* of twitter.get_authentication_tokens
get_context_data(rows, user, tokens) ==
    LET final == Get(AuthOfFinal(rows, user, TRUE))
        any == Get(AuthOf(rows, user))
        cleared == IF any.raised = None THEN Deleted(rows, any.ret) ELSE rows
    IN  IF DatetimeNowRaises THEN Auth(rows, "AttributeError")
        ELSE IF final.raised = None THEN Auth(rows, None)
        ELSE IF final.raised # "TwitterAuth.DoesNotExist"
             THEN Auth(rows, final.raised)
        ELSE IF any.raised = "TwitterAuth.MultipleObjectsReturned"
             THEN Auth(rows, any.raised)
        ELSE IF tokens # "ok" THEN Auth(cleared, tokens)
        ELSE Auth(Append(cleared,
                         TwitterAuth(user, FALSE, "request", "request-secret")),
                  None)

GetContextData(user) ==
    /\ \E tokens \in {"ok", "TwythonError"} :
          LET out == get_context_data(twitterAuth, user, tokens)
          IN  /\ twitterAuth' = out.rows
              /\ view' = [name |-> "get_context_data", skipped |-> FALSE]
    /\ UNCHANGED <<clock, invoiceTypes, leases, invoices, owners, contracts,
                   requests, messages, eventRows, rent, feed, due>>

\* the callback creating the final row when it finds no row to finalise
get_redirect_url_or_create(rows, user, verifier) ==
    LET found == Get(AuthOfFinal(rows, user, FALSE))
        final == TwitterAuth(user, TRUE, "access", "access-secret")
    IN  IF found.raised = "TwitterAuth.MultipleObjectsReturned"
        THEN Auth(rows, found.raised)
        ELSE IF verifier # "ok" THEN Auth(rows, verifier)
        ELSE IF found.raised = "TwitterAuth.DoesNotExist"
             THEN Auth(Append(rows, final), None)
        ELSE Auth([rows EXCEPT ![found.ret] = final], None)

\* lines 240-260, TwitterOAuthCallbackView.get_redirect_url; verifier is the
\* outcome of reading oauth_verifier and of twitter.get_authorized_tokens
get_redirect_url(rows, user, verifier) ==
    LET found == Get(AuthOfFinal(rows, user, FALSE))
    IN  IF found.raised = "TwitterAuth.DoesNotExist" THEN Auth(rows, None)
        ELSE IF found.raised # None THEN Auth(rows, found.raised)
        ELSE IF verifier # "ok" THEN Auth(rows, verifier)
        ELSE Auth([rows EXCEPT ![found.ret] =
                     TwitterAuth(user, TRUE, "access", "access-secret")],
                  None)

GetRedirectUrl(user) ==
    /\ \E verifier \in {"ok", "KeyError", "TwythonError"} :
          LET out == get_redirect_url(twitterAuth, user, verifier)
          IN  /\ twitterAuth' = out.rows
              /\ view' = [name |-> "get_redirect_url", skipped |-> FALSE]
    /\ UNCHANGED <<clock, invoiceTypes, leases, invoices, owners, contracts,
                   requests, messages, eventRows, rent, feed, due>>

(***************************************************************************)
(* The views (src/views.py): message ingestion                             *)
(***************************************************************************)
\* the ids the Twitter and Gmail services give their items
ExternalIds == {"a", "b"}

\* an id that is false in a condition (line 88)
EmptyId == ""

\* items one fetch returns at most
MaxFetched == 2

\* the lists of ids a fetch returns
Fetched(ids) == UNION { [1..n -> ids] : n \in 0..MaxFetched }

\* Message.objects.create_email(externalId=...): the row created
create_email(user_profile, externalId) ==
    Message(user_profile, None, "sender", "recipients", "subject",
            <<2024, 3, 1, 9>>, "Email", externalId)

\* Message.objects.create_tweet(externalId=...): the row created
create_tweet(user_profile, externalId) ==
    Message(user_profile, None, "name", None, "text",
            <<2024, 3, 1, 9>>, "Tweet", externalId)

\* the outcome of an ingestion loop
Ingested(rows, raised, skipped) ==
    [rows |-> rows, raised |-> raised, skipped |-> skipped]

\* the test skipping an item only when two rows already hold its id
AlreadyPresentTwice(rows, user_profile, id) ==
    Cardinality({ m \in DOMAIN rows :
                    /\ rows[m].user_profile = user_profile
                    /\ rows[m].external_id = id }) > 1

\* lines 90-92 and 176-178: len(Message.objects.filter(user_profile=...,
\* external_id=...)) > 0
AlreadyPresent(rows, user_profile, id) ==
    Cardinality({ m \in DOMAIN rows :
                    /\ rows[m].user_profile = user_profile
                    /\ rows[m].external_id = id }) > 0

\* lines 94-113: fetching and decoding the message raises; broken are the ids
\* of the messages that cannot be fetched or decoded, and the service has no
\* message of an empty id
GetMessageRaises(id, broken) == id = EmptyId \/ id \in broken

\* lines 87-126: the loop over the listed messages
RECURSIVE EmailLoop(_, _, _, _)
EmailLoop(rows, user_profile, response, broken) ==
    IF response = <<>> THEN Ingested(rows, None, 0)
    ELSE LET id == Head(response)
         IN  IF id # EmptyId /\ AlreadyPresent(rows, user_profile, id)
             THEN LET rest == EmailLoop(rows, user_profile, Tail(response), broken)
                  IN  [rest EXCEPT !.skipped = @ + 1]
             ELSE IF GetMessageRaises(id, broken)
                  THEN Ingested(rows, "Exception", 0)
             ELSE EmailLoop(Append(rows, create_email(user_profile, id)),
                            user_profile, Tail(response), broken)

\* lines 64-128, MessageEmailView.dispatch: account is the outcome of the
\* lookup of the GMail account, credential the state of the stored credential
dispatch(rows, user_profile, account, credential, response, broken) ==
    IF account = "EmailAccount.DoesNotExist" THEN Ingested(rows, None, 0)
    ELSE IF credential # "valid" THEN Ingested(rows, None, 0)
    ELSE EmailLoop(rows, user_profile, response, broken)

\* the runs of dispatch: <<account, credential, response, broken>>
DispatchInputs ==
    { <<"EmailAccount.DoesNotExist", "valid", <<"a">>, {}>>,
      <<"found", "invalid", <<"a">>, {}>> }
    \cup { <<"found", "valid", response, broken>> :
             response \in Fetched(ExternalIds \cup {EmptyId}),
             broken \in {{}, {"b"}} }

Dispatch(user) ==
    /\ \E run \in DispatchInputs :
          LET out == dispatch(messages, user, run[1], run[2], run[3], run[4])
          IN  /\ Records - Len(messages) + Len(out.rows) <= MaxRecords
              /\ messages' = out.rows
              /\ view' = [name |-> "dispatch", skipped |-> out.skipped > 0]
    /\ UNCHANGED <<clock, invoiceTypes, leases, invoices, owners, contracts,
                   requests, eventRows, twitterAuth, rent, feed, due>>

\* lines 174-187: the loop over the tweets of the timeline; broken are the ids
\* of the tweets whose created_at cannot be parsed
RECURSIVE TweetLoop(_, _, _, _)
TweetLoop(rows, user_profile, timeline, broken) ==
    IF timeline = <<>> THEN Ingested(rows, None, 0)
    ELSE LET id == Head(timeline)
         IN  IF AlreadyPresent(rows, user_profile, id)
             THEN LET rest == TweetLoop(rows, user_profile, Tail(timeline), broken)
                  IN  [rest EXCEPT !.skipped = @ + 1]
             ELSE IF id \in broken THEN Ingested(rows, "ValueError", 0)
             ELSE TweetLoop(Append(rows, create_tweet(user_profile, id)),
                            user_profile, Tail(timeline), broken)

\* lines 166-191, MessageSocialView.get_queryset: service is the outcome of
\* twitter.get_home_timeline
get_queryset(rows, user_profile, service, timeline, broken) ==
    LET auth == Get(AuthOfFinal(twitterAuth, user_profile, TRUE))
    IN  IF auth.raised = "TwitterAuth.DoesNotExist" THEN Ingested(rows, None, 0)
        ELSE IF auth.raised # None THEN Ingested(rows, auth.raised, 0)
        ELSE IF service = "TwythonRateLimitError" THEN Ingested(rows, None, 0)
        ELSE IF service # "ok" THEN Ingested(rows, service, 0)
        ELSE TweetLoop(rows, user_profile, timeline, broken)

\* the runs of get_queryset: <<service, timeline, broken>>
GetQuerysetInputs ==
    { <<"TwythonRateLimitError", <<>>, {}>>, <<"TwythonError", <<>>, {}>> }
    \cup { <<"ok", timeline, broken>> :
             timeline \in Fetched(ExternalIds), broken \in {{}, {"b"}} }

GetQueryset(user) ==
    /\ \E run \in GetQuerysetInputs :
          LET out == get_queryset(messages, user, run[1], run[2], run[3])
          IN  /\ Records - Len(messages) + Len(out.rows) <= MaxRecords
              /\ messages' = out.rows
              /\ view' = [name |-> "get_queryset", skipped |-> out.skipped > 0]
    /\ UNCHANGED <<clock, invoiceTypes, leases, invoices, owners, contracts,
                   requests, eventRows, twitterAuth, rent, feed, due>>

(***************************************************************************)
(* The due dates of one (today, rent_due_day), over the whole calendar     *)
(***************************************************************************)
CalendarDates ==
    { <<y, m, d>> \in (FirstYear..LastYear) \X (1..12) \X (1..31) :
        ValidDay(y, m, d) }

\* LeaseContract.rent_due_day is a day of the month
RentDueDays == 1..31

ComputeThisMonthDueDate ==
    /\ due.pc = "start"
    /\ due' = [due EXCEPT !.pc = "this_month",
                 !.this_month_due_date = ThisMonthDueDate(due.today, due.rent_due_day)]
    /\ UNCHANGED <<clock, store, calls, view>>

ComputeLastDue ==
    /\ due.pc = "this_month"
    /\ due' = [due EXCEPT !.pc = "done",
                 !.last_due = LastDue(due.today, due.rent_due_day)]
    /\ UNCHANGED <<clock, store, calls, view>>

NoDue == [pc |-> "off", today |-> None, rent_due_day |-> 0,
          this_month_due_date |-> None, last_due |-> None]

(***************************************************************************)
(* Specifications                                                          *)
(***************************************************************************)
EmptyStore ==
    /\ clock = ClockDates[1]
    /\ invoiceTypes = {}
    /\ leases = <<>>
    /\ invoices = <<>>
    /\ owners = {}
    /\ contracts = <<>>
    /\ requests = <<>>
    /\ messages = <<>>
    /\ eventRows = <<>>
    /\ twitterAuth = <<>>
    /\ rent = NoCall
    /\ feed = NoFeed
    /\ view = NoView

Init ==
    /\ EmptyStore
    /\ due = NoDue

Next ==
    \/ \E name \in InvoiceTypeNames : CreateInvoiceType(name)
    \/ \E lease \in RentLeaseInputs : CreateLease(lease)
    \/ \E invoice \in RentInvoiceInputs : CreateInvoice(invoice)
    \/ \E i \in DOMAIN invoices : PayInvoice(i, Mar02)
    \/ AdvanceClock
    \/ \E today \in TodayInputs : GetRentStatus(today)

\* the rent status over the stores the persistence layer builds
Spec == Init /\ [][Next]_vars

NextActivity ==
    \/ CreateInvoiceType("Rent")
    \/ \E user \in Users : AddOwner(user)
    \/ \E lease \in FeedLeaseInputs : CreateLease(lease)
    \/ \E contract \in FeedContractInputs : CreateContract(contract)
    \/ \E request \in FeedRequestInputs : CreateRequest(request)
    \/ \E message \in FeedMessageInputs : CreateMessage(message)
    \/ \E invoice \in FeedInvoiceInputs : CreateInvoice(invoice)
    \/ \E i \in DOMAIN invoices : PayInvoice(i, Mar02)
    \/ AdvanceClock
    \/ \E user \in Users, today \in TodayInputs : GetActivity(user, today)

\* the activity feed over the stores the persistence layer builds
SpecActivity == Init /\ [][NextActivity]_vars

NextReadOnly ==
    \/ CreateInvoiceType("Rent")
    \/ AddOwner("u1")
    \/ \E lease \in FeedLeaseInputs : CreateLease(lease)
    \/ CreateContract(Contract(Self, "u1", "u2", Jan01, Dec31))
    \/ CreateRequest(Request(Self, "u1", "u2", "leak", Mar01, None, None))
    \/ CreateMessage(Message("u1", Self, "u2@mail", "u1@mail", "hello",
                             <<2024, 3, 1, 9>>, "Email", None))
    \/ \E invoice \in FeedInvoiceInputs : CreateInvoice(invoice)
    \/ \E i \in DOMAIN invoices : PayInvoice(i, Mar02)
    \/ AdvanceClock
    \/ \E today \in TodayInputs : GetRentStatus(today)
    \/ \E user \in Users, today \in TodayInputs : GetActivity(user, today)

\* both methods called over the stores the persistence layer builds
SpecReadOnly == Init /\ [][NextReadOnly]_vars

NextViews ==
    \/ \E user \in Users : CreateTwitterAuth(user)
    \/ \E user \in Users : GetContextData(user)
    \/ \E user \in Users : GetRedirectUrl(user)
    \/ \E user \in Users : GetQueryset(user)
    \/ \E user \in Users : Dispatch(user)

\* the views called one after the other
SpecViews == Init /\ [][NextViews]_vars

InitDue ==
    /\ EmptyStore
    /\ \E today \in CalendarDates, day \in RentDueDays :
          due = [pc |-> "start", today |-> today, rent_due_day |-> day,
                 this_month_due_date |-> None, last_due |-> None]

NextDue ==
    \/ ComputeThisMonthDueDate
    \/ ComputeLastDue

\* the due-date arithmetic over every day of the calendar years
SpecDue == InitDue /\ [][NextDue]_vars

(***************************************************************************)
(* Claims: Property.get_rent_status                                        *)
(***************************************************************************)
Statuses == {"Paid", "Due", "Late", "NA", "!!"}

\* the last step called get_rent_status
RentCalled == rent.today # None

\* the leases the call iterated: those get_active_leases(date.today()) selects
Selected == { leases[i] : i \in get_active_leases(clock) }

\* the call was made with exactly one lease selected, started by today
SoleLeaseStarted(lease) ==
    /\ RentCalled
    /\ Cardinality(get_active_leases(clock)) = 1
    /\ lease \in Selected
    /\ DateLE(lease.start_date, rent.today)

\* the invoices of type "Rent" of the lease's tenant due on its last due date
RentInvoicesFor(lease, today) ==
    { i \in DOMAIN invoices :
        /\ invoices[i].type = "Rent"
        /\ invoices[i].payer = lease.tenant
        /\ invoices[i].due_date = LastDue(today, lease.rent_due_day) }

InGraceWindow(lease, today) ==
    LET last_due == LastDue(today, lease.rent_due_day)
    IN  /\ DateLE(last_due, today)
        /\ DateLE(today, AddDays(last_due, lease.days_grace_period))

\* C1: with exactly one active lease, started by today, the status is "Paid"
\* if and only if a Rent invoice of the lease's tenant due on last_due exists
\* whose paid_date is set.
C1_PaidIffPaidInvoice ==
    \A lease \in Selected :
        SoleLeaseStarted(lease) =>
            ( rent.ret = "Paid"
              <=> \E i \in RentInvoicesFor(lease, rent.today) :
                     invoices[i].paid_date # None )

\* C2: with exactly one active lease, started by today, the status is "Due"
\* if and only if a matching Rent invoice exists, unpaid, and today is within
\* [last_due, last_due + days_grace_period]; it is "Late" when the matching
\* invoice is unpaid and today is outside that window.
C2_DueIffUnpaidInGrace ==
    \A lease \in Selected :
        SoleLeaseStarted(lease) =>
            /\ rent.ret = "Due"
               <=> /\ \E i \in RentInvoicesFor(lease, rent.today) :
                         invoices[i].paid_date = None
                   /\ InGraceWindow(lease, rent.today)
            /\ ( /\ \E i \in RentInvoicesFor(lease, rent.today) :
                       invoices[i].paid_date = None
                 /\ ~InGraceWindow(lease, rent.today) )
               => rent.ret = "Late"

\* C3: the status is "!!" if and only if the property has an active lease
\* and no Rent invoice of that lease's tenant is due on last_due.
C3_UnknownIffInvoiceMissing ==
    RentCalled =>
        ( rent.ret = "!!"
          <=> \E lease \in Selected : RentInvoicesFor(lease, rent.today) = {} )

\* the leases of the property in effect on the date passed as today
ActiveOn(today) ==
    { i \in DOMAIN leases :
        /\ leases[i].property = Self
        /\ DateLE(leases[i].start_date, today)
        /\ DateLE(today, leases[i].end_date) }

\* C4: when no lease of the property is active on the date passed as today,
\* the status is "NA".
C4_NoActiveLeaseIsNA ==
    (RentCalled /\ ActiveOn(rent.today) = {}) => rent.ret = "NA"

C7_RentStatusTotal ==
    RentCalled => (rent.raised = None /\ rent.ret \in Statuses)

\* the call iterated several leases
SeveralLeases == RentCalled /\ Len(rent.order) >= 2

\* what the call would compute for the lease of row l alone
Alone(l) == get_rent_status(rent.today, <<l>>)

\* the last lease of the iteration order
LastLease == rent.order[Len(rent.order)]

\* C14 as claimed: with several leases active at once, the status returned
\* is the one computed for the last lease iterated, whatever was computed
\* for the earlier ones (read over the calls where both the call and the
\* last lease alone return a status).
C14_LastLeaseWins ==
    (SeveralLeases /\ rent.raised = None /\ Alone(LastLease).raised = None)
    => rent.ret = Alone(LastLease).ret

\* the loop does not go past the lease: it is not yet started, or the lookup
\* of its rent invoice does not find exactly one invoice
EndsLoop(l) ==
    \/ DateLT(rent.today, leases[l].start_date)
    \/ "Rent" \notin invoiceTypes
    \/ Cardinality(RentInvoicesFor(leases[l], rent.today)) # 1

\* the lease the call processes last: the first that ends the loop, and the
\* last of the iteration order when none does
LastProcessed ==
    LET ending == { i \in DOMAIN rent.order : EndsLoop(rent.order[i]) }
    IN  IF ending = {} THEN LastLease
        ELSE rent.order[CHOOSE i \in ending : \A j \in ending : i <= j]

\* C14 as amended: with several leases active at once, the call iterates
\* them up to the first lease that is not yet started or whose rent invoice
\* lookup does not find exactly one invoice, and its outcome is the one
\* computed for that lease alone; only when there is no such lease does it
\* iterate all of them and return the status computed for the last one.
C14_FirstEndingLeaseWins ==
    SeveralLeases =>
        /\ rent.ret = Alone(LastProcessed).ret
        /\ rent.raised = Alone(LastProcessed).raised

\* an earlier lease is not yet started and the call returned "NA", while the
\* last lease alone has another status
C14_Witness ==
    /\ SeveralLeases
    /\ DateLT(rent.today, leases[rent.order[1]].start_date)
    /\ rent.ret = "NA"
    /\ Alone(LastLease).raised = None
    /\ Alone(LastLease).ret # "NA"

\* what the stored records and the today argument alone determine: the
\* status computed over the leases active on the today argument
OfArgumentAlone ==
    get_rent_status(rent.today, ByRowId(ActiveOn(rent.today)))

\* C16: the result of get_rent_status(today) is determined by the stored
\* records and the today argument alone: the leases iterated are those
\* active on the today argument and the outcome is the one computed over
\* them, whatever the wall-clock date of the call.
C16_DependsOnArgumentOnly ==
    RentCalled =>
        /\ rent.order = ByRowId(ActiveOn(rent.today))
        /\ rent.ret = OfArgumentAlone.ret
        /\ rent.raised = OfArgumentAlone.raised

(***************************************************************************)
(* Claims: the due dates                                                   *)
(***************************************************************************)
\* the number of days of a month of the calendar
DaysOfMonth(y, m) ==
    LET february == IF y % 4 = 0 /\ (y % 100 # 0 \/ y % 400 = 0) THEN 29 ELSE 28
    IN  <<31, february, 31, 30, 31, 30, 31, 31, 30, 31, 30, 31>>[m]

\* C6: this_month_due_date lies in today's year and month and its day is
\* min(rent_due_day, number of days of that month).
C6_ThisMonthDueDateClamped ==
    due.pc \in {"this_month", "done"} =>
        due.this_month_due_date =
            <<due.today[1], due.today[2],
              Min(due.rent_due_day, DaysOfMonth(due.today[1], due.today[2]))>>

C6_Witness ==
    /\ due.pc = "this_month"
    /\ due.today[2] = 2
    /\ due.rent_due_day = 31
    /\ due.this_month_due_date = <<2024, 2, 29>>

\* the due date of the lease in a month: the day rent_due_day, or the last
\* day of the month when the month is shorter
DueDateIn(y, m) == <<y, m, Min(due.rent_due_day, DaysOfMonth(y, m))>>

\* the month before today's
PreviousMonth ==
    IF due.today[2] = 1 THEN <<due.today[1] - 1, 12>>
    ELSE <<due.today[1], due.today[2] - 1>>

\* the due dates of the lease around today
DueDates ==
    { DueDateIn(y, m) : y \in (due.today[1] - 1)..(due.today[1] + 1), m \in 1..12 }

\* C15: last_due is this month's due date when today is not before it, and
\* otherwise the date of the previous calendar month whose day is
\* min(rent_due_day, length of that month); last_due is not after today and
\* no due date of the lease lies after last_due and not after today.
C15_LastDueMostRecent ==
    due.pc = "done" =>
        LET this_month == DueDateIn(due.today[1], due.today[2])
        IN  /\ DateLE(this_month, due.today) => due.last_due = this_month
            /\ DateLT(due.today, this_month)
               => due.last_due = DueDateIn(PreviousMonth[1], PreviousMonth[2])
            /\ DateLE(due.last_due, due.today)
            /\ \A d \in DueDates :
                  DateLE(d, due.today) => DateLE(d, due.last_due)

\* today is in February before the due date of a lease due on the 31st:
\* the last due date is January 31st
C15_Witness ==
    /\ due.pc = "done"
    /\ due.rent_due_day = 31
    /\ due.today[2] = 2
    /\ due.today[3] = 10
    /\ due.last_due = <<due.today[1], 1, 31>>

(***************************************************************************)
(* Claims: Property.get_activity                                           *)
(***************************************************************************)
\* the last step called get_activity
FeedCalled == feed.user # None

\* the call returned a list
FeedReturned == FeedCalled /\ feed.raised = None

\* C8: every call of get_activity completes and returns a list, also when
\* the user has no management contract on the property but has maintenance
\* requests assigned to or created by them.
C8_ActivityTotal == FeedCalled => feed.raised = None

\* the six fields of two events are all equal
SameEvent(a, b) ==
    /\ a.headline = b.headline
    /\ a.date = b.date
    /\ a.person = b.person
    /\ a.actionText = b.actionText
    /\ a.action = b.action
    /\ a.type = b.type

\* C9: the returned list never holds two events whose six fields are all
\* equal, even when the same record is selected by several sources.
C9_NoDuplicateEvents ==
    FeedReturned =>
        \A i, j \in DOMAIN feed.activity :
            i # j => ~SameEvent(feed.activity[i], feed.activity[j])

\* the user is tenant of a lease of the property and one of its owners, so
\* the lease is collected twice, and its events are in the list once
C9_Witness ==
    /\ FeedReturned
    /\ feed.user \in owners
    /\ \E l \in DOMAIN leases :
          /\ leases[l].tenant = feed.user
          /\ leases[l].property = Self
          /\ Cardinality({ i \in DOMAIN feed.activity :
                             /\ feed.activity[i].headline = "Lease Started"
                             /\ feed.activity[i].action = <<"lease-detail", l>> }) = 1

\* the calendar date of an event: a datetime truncated to its date
CalendarDate(event) == <<event.date[1], event.date[2], event.date[3]>>

\* C10: the returned list is ordered newest first by calendar date.
C10_NewestFirst ==
    FeedReturned =>
        \A i, j \in DOMAIN feed.activity :
            i < j => DateLE(CalendarDate(feed.activity[j]),
                            CalendarDate(feed.activity[i]))

\* a list with a datetime event and date events of at least three days
C10_Witness ==
    /\ FeedReturned
    /\ \E i \in DOMAIN feed.activity : Len(feed.activity[i].date) = 4
    /\ Cardinality({ CalendarDate(feed.activity[i]) : i \in DOMAIN feed.activity }) >= 3

\* the events of the list with the given headline and action
EventsOf(headline, action) ==
    { i \in DOMAIN feed.activity :
        /\ feed.activity[i].headline = headline
        /\ feed.activity[i].action = action }

\* the requests of the property the viewing user created
CreatedByViewer ==
    { r \in DOMAIN requests :
        requests[r].created_by = feed.user /\ requests[r].property = Self }

\* C11: for every maintenance request of the property created by the viewing
\* user, the list holds a "New Request" event of that request, and it holds
\* a "Closed Request" event of that request if and only if resolution_date
\* is set and not after today.
C11_CreatedRequestEvents ==
    FeedCalled =>
        \A r \in CreatedByViewer :
            /\ EventsOf("New Request: " \o requests[r].headline,
                        <<"maintenance-detail", r>>) # {}
            /\ EventsOf("Closed Request: " \o requests[r].headline,
                        <<"maintenance-detail", r>>) # {}
               <=> SetAndBy(requests[r].resolution_date, feed.today)

\* the leases whose events the viewing user is shown: those of the property
\* the user is tenant of, all those of the property if the user is one of
\* its owners, and those of every property the user manages
LeasesShown ==
    { l \in DOMAIN leases :
        \/ leases[l].tenant = feed.user /\ leases[l].property = Self
        \/ feed.user \in owners /\ leases[l].property = Self
        \/ \E c \in DOMAIN contracts :
              /\ contracts[c].manager = feed.user
              /\ contracts[c].property = leases[l].property }

\* the event is the "Lease Started" event of lease l
IsLeaseStarted(event, l) ==
    /\ event.headline = "Lease Started"
    /\ event.action = <<"lease-detail", l>>
    /\ event.date = leases[l].start_date

\* the event is the "Lease Ended" event of lease l
IsLeaseEnded(event, l) ==
    /\ event.headline = "Lease Ended"
    /\ event.action = <<"lease-detail", l>>
    /\ event.date = leases[l].end_date

\* the lease events of the list are exactly those of the leases shown
LeaseEventsExact ==
    /\ \A l \in LeasesShown :
          /\ \E i \in DOMAIN feed.activity : IsLeaseStarted(feed.activity[i], l)
          /\ (\E i \in DOMAIN feed.activity : IsLeaseEnded(feed.activity[i], l))
             <=> DateLE(leases[l].end_date, feed.today)
    /\ \A i \in DOMAIN feed.activity :
          feed.activity[i].type = "lease" =>
              \E l \in LeasesShown :
                  \/ IsLeaseStarted(feed.activity[i], l)
                  \/ IsLeaseEnded(feed.activity[i], l)

\* C13: the lease events of get_activity(user, today) are exactly those of
\* the leases of the property the user is tenant of, of every lease of the
\* property if the user is an owner, and of every lease of the properties
\* the user manages: a "Lease Started" event dated start_date for each,
\* and a "Lease Ended" event dated end_date if and only if end_date <= today.
C13_LeaseEvents == FeedCalled => LeaseEventsExact

(***************************************************************************)
(* Claims: both methods                                                    *)
(***************************************************************************)
\* C12: a step that calls get_rent_status or get_activity leaves every
\* InvoiceType, Lease, Invoice, owner, ManagementContract,
\* MaintenanceRequest, Message, Event and TwitterAuth row as it was: none
\* created, modified or deleted, and no event of the list saved.
C12_CallsReadOnly ==
    [][ (rent' # NoCall \/ feed' # NoFeed) => UNCHANGED store ]_vars

\* get_activity returned events built from rows of the store, and no Event
\* row exists
C12_Witness ==
    /\ FeedReturned
    /\ feed.activity # <<>>
    /\ leases # <<>>
    /\ invoices # <<>>
    /\ eventRows = <<>>

(***************************************************************************)
(* Claims: the views                                                       *)
(***************************************************************************)
\* C17: whatever lists of tweets and of Gmail messages the runs of
\* get_queryset and dispatch fetched, repeated ids included, no two stored
\* Message rows of the same user_profile have the same external_id: an item
\* whose id is stored for the user is skipped, never created again.
C17_OneRowPerExternalId ==
    \A i, j \in DOMAIN messages :
        ( /\ i # j
          /\ messages[i].external_id # None
          /\ messages[i].user_profile = messages[j].user_profile )
        => messages[i].external_id # messages[j].external_id

\* a run of dispatch skipped an item already stored, and the same id is
\* stored once for each of two users
C17_Witness ==
    /\ view.name = "dispatch"
    /\ view.skipped
    /\ \E i, j \in DOMAIN messages :
          /\ messages[i].external_id = messages[j].external_id
          /\ messages[i].user_profile # messages[j].user_profile

\* the user has a row with final = True
HasFinal(rows, user) == AuthOfFinal(rows, user, TRUE) # {}

\* C18: in every step, each user has one TwitterAuth row at most; a user's
\* row becomes final = True only in a step of the callback, the user having
\* had a row with final = False; the callback changes none of the rows of a
\* user that has no row with final = False; and a row with final = True
\* stays in the table as it is.
C18_AuthLifecycle ==
    [][ \A user \in Users :
          /\ Cardinality(AuthOf(twitterAuth', user)) <= 1
          /\ (~HasFinal(twitterAuth, user) /\ HasFinal(twitterAuth', user))
             => /\ view'.name = "get_redirect_url"
                /\ AuthOfFinal(twitterAuth, user, FALSE) # {}
          /\ ( /\ view'.name = "get_redirect_url"
               /\ AuthOfFinal(twitterAuth, user, FALSE) = {} )
             => { twitterAuth'[a] : a \in AuthOf(twitterAuth', user) }
                = { twitterAuth[a] : a \in AuthOf(twitterAuth, user) }
          /\ \A a \in AuthOfFinal(twitterAuth, user, TRUE) :
                \E b \in DOMAIN twitterAuth' : twitterAuth'[b] = twitterAuth[a]
      ]_vars

\* the callback made the row of a user final, and a later call of
\* get_context_data for it left the row in the table
C18_Witness ==
    /\ view.name = "get_context_data"
    /\ \E a \in DOMAIN twitterAuth :
          /\ twitterAuth[a].final
          /\ twitterAuth[a].oauth_token = "access"

====
